---- MODULE Spec2Model ----
(***************************************************************************)
(* Calories/app.py: a FastAPI application that loads a regression model    *)
(* (Calories.pkl) and an optional scaler (scaler.pkl) when the module is   *)
(* imported, and serves POST /predict.                                     *)
(*                                                                         *)
(* Numbers.  Feature values are small integers.  A prediction is an        *)
(* integer count of thousandths (150456 stands for 150.456), so rounding   *)
(* to two decimals is rounding to a multiple of 10.                        *)
(*                                                                         *)
(* The two pickled artifacts are not part of the source tree; they are     *)
(* represented by fixed stubs (ScalerTransform, ScalerRaises,              *)
(* ModelPredict, ModelRaises) that are deterministic functions of the      *)
(* rows they receive.                                                      *)
(***************************************************************************)
EXTENDS Integers, Sequences, FiniteSets, TLC

\* Cap on the number of requests admitted in one run.
MaxRequests == 2

\* Concurrent invocations of the route (threadpool workers of the framework).
Handlers == {"h1", "h2"}

\* What the filesystem holds for each artifact path when the process starts.
FileStates == {"ok", "missing", "corrupt"}

VARIABLES
    modelFile,      \* state of 'Calories.pkl' on disk
    scalerFile,     \* state of 'scaler.pkl' on disk
    phase,          \* "import", "model_loaded", "scaler_done", "ready", "crashed"
    model,          \* module global: "unbound" or "regressor"
    scaler,         \* module global: "unbound", "None" or "scaler_obj"
    use_scaler,     \* module global: "unbound", "True" or "False"
    warned,         \* the warning of line 21 was printed
    admitted,       \* number of requests admitted so far
    pc,             \* per invocation: "idle", "validated", "built", "scaled", "predicted", "done"
    body,           \* per invocation: the JSON body received
    data,           \* per invocation: the InputData instance
    features,       \* per frame: local variable features (a sequence of rows)
    prediction,     \* per frame: local variable prediction (a sequence of values)
    response,       \* per invocation: the HTTP response sent
    scalerInput,    \* per invocation: rows scaler.transform received
    modelInput,     \* per invocation: rows model.predict received
    transformCalls, \* per invocation: calls of scaler.transform
    predictCalls    \* per invocation: calls of model.predict

globals == <<model, scaler, use_scaler>>
env == <<modelFile, scalerFile>>
locals == <<pc, body, data, features, prediction, response,
            scalerInput, modelInput, transformCalls, predictCalls>>
vars == <<modelFile, scalerFile, phase, model, scaler, use_scaler, warned, admitted,
          pc, body, data, features, prediction, response,
          scalerInput, modelInput, transformCalls, predictCalls>>

----------------------------------------------------------------------------
(* Request bodies *)

Fields == {"age", "duration", "heart_rate", "body_temp"}

JsonAbsent == [kind |-> "absent", text |-> "", val |-> 0]
JsonStr(t) == [kind |-> "str", text |-> t, val |-> 0]
JsonNum(v) == [kind |-> "num", text |-> "", val |-> v]

\* What a field of a request body may hold: nothing, a non-numeric string,
\* a numeric string, a number.
FieldInputs == {JsonAbsent, JsonStr("abc"), JsonStr("1"), JsonNum(2)}

Bodies == [Fields -> FieldInputs]

NoBody == [f \in Fields |-> JsonAbsent]

\* float(text) succeeds
StrIsFloat(t) == t \in {"1"}

StrToFloat(t) == CASE t = "1" -> 1
                   [] OTHER -> 0

\* Faulty variant of FieldValid: the field has a default (`name: float = 0`).
FieldOptional(j) ==
    \/ j.kind = "absent"
    \/ j.kind = "num"
    \/ j.kind = "str" /\ StrIsFloat(j.text)
\* A field declared `name: float` with no default: required, and coerced
\* (a JSON number is taken as it is, a string is taken when float() accepts it).
FieldValid(j) ==
    \/ j.kind = "num"
    \/ j.kind = "str" /\ StrIsFloat(j.text)

FieldValue(j) == IF j.kind = "num" THEN j.val ELSE StrToFloat(j.text)

ValidBody(b) == \A f \in Fields : FieldValid(b[f])

NoData == [age |-> 0, duration |-> 0, heart_rate |-> 0, body_temp |-> 0]

InputData(b) ==
    [age        |-> FieldValue(b["age"]),
     duration   |-> FieldValue(b["duration"]),
     heart_rate |-> FieldValue(b["heart_rate"]),
     body_temp  |-> FieldValue(b["body_temp"])]

----------------------------------------------------------------------------
(* Responses *)

NoResponse == [status |-> 0, body |-> [detail |-> 0]]
ValidationError == [status |-> 422, body |-> [detail |-> 422]]
ServerError == [status |-> 500, body |-> [detail |-> 500]]
Success(v) == [status |-> 200, body |-> [calories_burnt |-> v]]

----------------------------------------------------------------------------
(* The handler's pure steps *)

\* Faulty variant of Features: duration and heart_rate exchanged.
FeaturesSwapped(d) == << <<d.age, d.heart_rate, d.duration, d.body_temp>> >>
\* np.array([[data.age, data.duration, data.heart_rate, data.body_temp]])
Features(d) == << <<d.age, d.duration, d.heart_rate, d.body_temp>> >>

\* Faulty variant of ShouldScale: the flag is not consulted.
ShouldScaleAlways == TRUE
\* if use_scaler:
ShouldScale == use_scaler = "True"

\* Faulty variant of Round2: truncation to two decimals.
Round2Trunc(p) == (p \div 10) * 10
\* round(x, 2) on thousandths: nearest multiple of 10, ties to the even hundredth
Round2(p) ==
    LET q == p \div 10
        r == p % 10
    IN  IF r < 5 THEN q * 10
        ELSE IF r > 5 THEN (q + 1) * 10
        ELSE IF q % 2 = 0 THEN q * 10 ELSE (q + 1) * 10

\* Faulty variant of Frame: features and prediction are module globals.
FrameShared(h) == "h1"
\* Each invocation of predict has its own frame of local variables.
Frame(h) == h

----------------------------------------------------------------------------
(* Stub artifacts *)

ScalerMean == <<1, 2, 1, 2>>
ScalerGain == <<10, 20, 30, 40>>

\* scaler.transform(X): an affine map, column by column
ScalerTransform(X) ==
    [r \in 1..Len(X) |-> [i \in 1..Len(X[r]) |-> ScalerGain[i] * (X[r][i] - ScalerMean[i])]]

\* rows the stub scaler raises on
ScalerRaises(X) == \E r \in 1..Len(X) : X[r][1] = 2 /\ X[r][2] = 2

ModelWeights == <<1, 3, 7, 12>>

\* model.predict(X): one value per row, in thousandths
ModelPredict(X) ==
    [r \in 1..Len(X) |->
        150433 + ModelWeights[1] * X[r][1] + ModelWeights[2] * X[r][2]
               + ModelWeights[3] * X[r][3] + ModelWeights[4] * X[r][4]]

\* rows the stub model raises on
ModelRaises(X) == \E r \in 1..Len(X) : X[r][3] > X[r][4]

----------------------------------------------------------------------------
(* Startup: the module body, lines 10-39 *)

Init ==
    /\ modelFile \in FileStates
    /\ scalerFile \in FileStates
    /\ phase = "import"
    /\ model = "unbound"
    /\ scaler = "unbound"
    /\ use_scaler = "unbound"
    /\ warned = FALSE
    /\ admitted = 0
    /\ pc = [h \in Handlers |-> "idle"]
    /\ body = [h \in Handlers |-> NoBody]
    /\ data = [h \in Handlers |-> NoData]
    /\ features = [h \in Handlers |-> <<>>]
    /\ prediction = [h \in Handlers |-> <<>>]
    /\ response = [h \in Handlers |-> NoResponse]
    /\ scalerInput = [h \in Handlers |-> <<>>]
    /\ modelInput = [h \in Handlers |-> <<>>]
    /\ transformCalls = [h \in Handlers |-> 0]
    /\ predictCalls = [h \in Handlers |-> 0]

\* Faulty variant of LoadModel: a failed load is swallowed and the import goes on.
LoadModelLenient ==
    /\ phase = "import"
    /\ phase' = "model_loaded"
    /\ model' = IF modelFile = "ok" THEN "regressor" ELSE "None"
    /\ UNCHANGED <<env, scaler, use_scaler, warned, admitted, locals>>
\* model = joblib.load('Calories.pkl'); an exception ends the import
LoadModel ==
    /\ phase = "import"
    /\ IF modelFile = "ok"
         THEN /\ model' = "regressor"
              /\ phase' = "model_loaded"
         ELSE /\ model' = model
              /\ phase' = "crashed"
    /\ UNCHANGED <<env, scaler, use_scaler, warned, admitted, locals>>

\* Faulty variant of LoadScaler: a scaler file that does not load is treated
\* as an absent one.
LoadScalerLenient ==
    /\ phase = "model_loaded"
    /\ phase' = "scaler_done"
    /\ IF scalerFile = "ok"
         THEN /\ scaler' = "scaler_obj"
              /\ use_scaler' = "True"
              /\ warned' = warned
         ELSE /\ scaler' = "None"
              /\ use_scaler' = "False"
              /\ warned' = TRUE
    /\ UNCHANGED <<env, model, admitted, locals>>
\* if os.path.exists(scaler_path): scaler = joblib.load(...); use_scaler = True
\* else: scaler = None; use_scaler = False; print(warning)
\* joblib.load is unguarded here too: a corrupt file ends the import.
LoadScaler ==
    /\ phase = "model_loaded"
    /\ IF scalerFile = "missing"
         THEN /\ scaler' = "None"
              /\ use_scaler' = "False"
              /\ warned' = TRUE
              /\ phase' = "scaler_done"
         ELSE IF scalerFile = "ok"
         THEN /\ scaler' = "scaler_obj"
              /\ use_scaler' = "True"
              /\ warned' = warned
              /\ phase' = "scaler_done"
         ELSE /\ UNCHANGED <<scaler, use_scaler, warned>>
              /\ phase' = "crashed"
    /\ UNCHANGED <<env, model, admitted, locals>>

\* app = FastAPI(); add_middleware; the route is registered and served
CreateApp ==
    /\ phase = "scaler_done"
    /\ phase' = "ready"
    /\ UNCHANGED <<env, globals, warned, admitted, locals>>

----------------------------------------------------------------------------
(* POST /predict *)

\* The framework receives a body, validates it against InputData and either
\* answers 422 or calls predict(data).
Request(h, b) ==
    /\ phase = "ready"
    /\ pc[h] = "idle"
    /\ admitted < MaxRequests
    /\ admitted' = admitted + 1
    /\ body' = [body EXCEPT ![h] = b]
    /\ IF ValidBody(b)
         THEN /\ data' = [data EXCEPT ![h] = InputData(b)]
              /\ pc' = [pc EXCEPT ![h] = "validated"]
              /\ response' = response
         ELSE /\ data' = data
              /\ pc' = [pc EXCEPT ![h] = "done"]
              /\ response' = [response EXCEPT ![h] = ValidationError]
    /\ UNCHANGED <<env, phase, globals, warned, features, prediction,
                   scalerInput, modelInput, transformCalls, predictCalls>>

\* features = np.array([[...]])
BuildFeatures(h) ==
    /\ phase = "ready"
    /\ pc[h] = "validated"
    /\ features' = [features EXCEPT ![Frame(h)] = Features(data[h])]
    /\ pc' = [pc EXCEPT ![h] = "built"]
    /\ UNCHANGED <<env, phase, globals, warned, admitted, body, data, prediction,
                   response, scalerInput, modelInput, transformCalls, predictCalls>>

\* Faulty variant of Scale: an exception of transform is swallowed and the
\* raw rows go on to the model.
ScaleFallback(h) ==
    /\ phase = "ready"
    /\ pc[h] = "built"
    /\ pc' = [pc EXCEPT ![h] = "scaled"]
    /\ IF ShouldScale
         THEN /\ transformCalls' = [transformCalls EXCEPT ![h] = @ + 1]
              /\ scalerInput' = [scalerInput EXCEPT ![h] = features[Frame(h)]]
              /\ features' = IF ScalerRaises(features[Frame(h)])
                               THEN features
                               ELSE [features EXCEPT ![Frame(h)] = ScalerTransform(@)]
         ELSE UNCHANGED <<transformCalls, scalerInput, features>>
    /\ UNCHANGED <<env, phase, globals, warned, admitted, body, data, prediction,
                   response, modelInput, predictCalls>>
\* Faulty variant of Scale: the result of transform is not assigned.
ScaleDiscard(h) ==
    /\ phase = "ready"
    /\ pc[h] = "built"
    /\ IF ShouldScale
         THEN /\ transformCalls' = [transformCalls EXCEPT ![h] = @ + 1]
              /\ scalerInput' = [scalerInput EXCEPT ![h] = features[Frame(h)]]
              /\ features' = features
              /\ IF ScalerRaises(features[Frame(h)])
                   THEN /\ pc' = [pc EXCEPT ![h] = "done"]
                        /\ response' = [response EXCEPT ![h] = ServerError]
                   ELSE /\ pc' = [pc EXCEPT ![h] = "scaled"]
                        /\ response' = response
         ELSE /\ pc' = [pc EXCEPT ![h] = "scaled"]
              /\ UNCHANGED <<transformCalls, scalerInput, features, response>>
    /\ UNCHANGED <<env, phase, globals, warned, admitted, body, data, prediction,
                   modelInput, predictCalls>>
\* if use_scaler: features = scaler.transform(features)
\* An exception of transform leaves predict; the framework answers 500.
Scale(h) ==
    /\ phase = "ready"
    /\ pc[h] = "built"
    /\ IF ShouldScale
         THEN /\ transformCalls' = [transformCalls EXCEPT ![h] = @ + 1]
              /\ scalerInput' = [scalerInput EXCEPT ![h] = features[Frame(h)]]
              /\ IF ScalerRaises(features[Frame(h)])
                   THEN /\ features' = features
                        /\ pc' = [pc EXCEPT ![h] = "done"]
                        /\ response' = [response EXCEPT ![h] = ServerError]
                   ELSE /\ features' = [features EXCEPT ![Frame(h)] = ScalerTransform(@)]
                        /\ pc' = [pc EXCEPT ![h] = "scaled"]
                        /\ response' = response
         ELSE /\ pc' = [pc EXCEPT ![h] = "scaled"]
              /\ UNCHANGED <<transformCalls, scalerInput, features, response>>
    /\ UNCHANGED <<env, phase, globals, warned, admitted, body, data, prediction,
                   modelInput, predictCalls>>

\* Faulty variant of Predict: a failing inference switches scaling off.
PredictDisablesScaler(h) ==
    /\ phase = "ready"
    /\ pc[h] = "scaled"
    /\ predictCalls' = [predictCalls EXCEPT ![h] = @ + 1]
    /\ modelInput' = [modelInput EXCEPT ![h] = features[Frame(h)]]
    /\ IF ModelRaises(features[Frame(h)])
         THEN /\ prediction' = prediction
              /\ pc' = [pc EXCEPT ![h] = "done"]
              /\ response' = [response EXCEPT ![h] = ServerError]
              /\ use_scaler' = "False"
         ELSE /\ prediction' = [prediction EXCEPT ![Frame(h)] = ModelPredict(features[Frame(h)])]
              /\ pc' = [pc EXCEPT ![h] = "predicted"]
              /\ response' = response
              /\ use_scaler' = use_scaler
    /\ UNCHANGED <<env, phase, model, scaler, warned, admitted, body, data, features,
                   scalerInput, transformCalls>>
\* prediction = model.predict(features)
\* An exception of predict leaves the handler; the framework answers 500.
Predict(h) ==
    /\ phase = "ready"
    /\ pc[h] = "scaled"
    /\ predictCalls' = [predictCalls EXCEPT ![h] = @ + 1]
    /\ modelInput' = [modelInput EXCEPT ![h] = features[Frame(h)]]
    /\ IF ModelRaises(features[Frame(h)])
         THEN /\ prediction' = prediction
              /\ pc' = [pc EXCEPT ![h] = "done"]
              /\ response' = [response EXCEPT ![h] = ServerError]
         ELSE /\ prediction' = [prediction EXCEPT ![Frame(h)] = ModelPredict(features[Frame(h)])]
              /\ pc' = [pc EXCEPT ![h] = "predicted"]
              /\ response' = response
    /\ UNCHANGED <<env, phase, globals, warned, admitted, body, data, features,
                   scalerInput, transformCalls>>

\* return {"calories_burnt": round(prediction[0], 2)}
Return(h) ==
    /\ phase = "ready"
    /\ pc[h] = "predicted"
    /\ response' = [response EXCEPT ![h] = Success(Round2(prediction[Frame(h)][1]))]
    /\ pc' = [pc EXCEPT ![h] = "done"]
    /\ UNCHANGED <<env, phase, globals, warned, admitted, body, data, features,
                   prediction, scalerInput, modelInput, transformCalls, predictCalls>>

\* The response has been sent; the invocation's frame is discarded.
Complete(h) ==
    /\ phase = "ready"
    /\ pc[h] = "done"
    /\ pc' = [pc EXCEPT ![h] = "idle"]
    /\ body' = [body EXCEPT ![h] = NoBody]
    /\ data' = [data EXCEPT ![h] = NoData]
    /\ features' = [features EXCEPT ![h] = <<>>]
    /\ prediction' = [prediction EXCEPT ![h] = <<>>]
    /\ response' = [response EXCEPT ![h] = NoResponse]
    /\ scalerInput' = [scalerInput EXCEPT ![h] = <<>>]
    /\ modelInput' = [modelInput EXCEPT ![h] = <<>>]
    /\ transformCalls' = [transformCalls EXCEPT ![h] = 0]
    /\ predictCalls' = [predictCalls EXCEPT ![h] = 0]
    /\ UNCHANGED <<env, phase, globals, warned, admitted>>

Next ==
    \/ LoadModel
    \/ LoadScaler
    \/ CreateApp
    \/ \E h \in Handlers, b \in Bodies : Request(h, b)
    \/ \E h \in Handlers : BuildFeatures(h)
    \/ \E h \in Handlers : Scale(h)
    \/ \E h \in Handlers : Predict(h)
    \/ \E h \in Handlers : Return(h)
    \/ \E h \in Handlers : Complete(h)

Spec == Init /\ [][Next]_vars

----------------------------------------------------------------------------
(* Properties *)

Started == phase \in {"model_loaded", "scaler_done", "ready"}

\* The raw rows of the request an invocation is handling, spelled out field by
\* field from the body it received.
RawRows(h) ==
    << <<FieldValue(body[h]["age"]), FieldValue(body[h]["duration"]),
         FieldValue(body[h]["heart_rate"]), FieldValue(body[h]["body_temp"])>> >>

\* C1: when the model artifact is missing or corrupt the process never gets
\* past the import, and no request is ever admitted or answered.
C1_ModelLoadFatal ==
    modelFile # "ok" =>
        /\ ~Started
        /\ model = "unbound"
        /\ admitted = 0
        /\ \A h \in Handlers : pc[h] = "idle" /\ response[h] = NoResponse

C1_Witness == modelFile # "ok" /\ phase = "crashed"

\* C2: with no scaler file the startup does not crash on the scaler,
\* use_scaler is False, transform is never called and the model receives
\* exactly the raw rows of the request.
C2_NoScalerRaw ==
    scalerFile = "missing" =>
        /\ modelFile = "ok" => phase # "crashed"
        /\ phase \in {"scaler_done", "ready"} => use_scaler = "False" /\ warned
        /\ \A h \in Handlers :
            /\ transformCalls[h] = 0
            /\ scalerInput[h] = <<>>
            /\ predictCalls[h] > 0 => modelInput[h] = RawRows(h)

C2_Witness ==
    /\ scalerFile = "missing"
    /\ \E h \in Handlers : predictCalls[h] = 1 /\ response[h].status = 200

\* C3: with a scaler, whatever the model receives is scaler.transform of the
\* raw rows of that request, transform was called once on those raw rows,
\* and the model did not get the raw rows themselves.
C3_ScaledInput ==
    scalerFile = "ok" =>
        \A h \in Handlers :
            predictCalls[h] > 0 =>
                /\ transformCalls[h] = 1
                /\ scalerInput[h] = RawRows(h)
                /\ modelInput[h] = ScalerTransform(RawRows(h))
                /\ modelInput[h] # RawRows(h)

C3_Witness ==
    /\ scalerFile = "ok"
    /\ \E h \in Handlers : predictCalls[h] = 1 /\ pc[h] = "predicted"

\* C4: the rows built by predict are one row of four columns holding age,
\* duration, heart_rate, body_temp in that order, and the scaler and the
\* model each receive exactly one row.
C4_FeatureOrder ==
    \A h \in Handlers :
        /\ pc[h] = "built" =>
            /\ Len(features[h]) = 1
            /\ Len(features[h][1]) = 4
            /\ features[h][1][1] = data[h].age
            /\ features[h][1][2] = data[h].duration
            /\ features[h][1][3] = data[h].heart_rate
            /\ features[h][1][4] = data[h].body_temp
            /\ data[h].age = FieldValue(body[h]["age"])
            /\ data[h].duration = FieldValue(body[h]["duration"])
            /\ data[h].heart_rate = FieldValue(body[h]["heart_rate"])
            /\ data[h].body_temp = FieldValue(body[h]["body_temp"])
        /\ transformCalls[h] > 0 =>
            /\ Len(scalerInput[h]) = 1
            /\ scalerInput[h][1] =
                 <<data[h].age, data[h].duration, data[h].heart_rate, data[h].body_temp>>
        /\ predictCalls[h] > 0 =>
            /\ Len(modelInput[h]) = 1
            /\ Len(modelInput[h][1]) = 4
            /\ use_scaler = "False" =>
                 modelInput[h][1] =
                   <<data[h].age, data[h].duration, data[h].heart_rate, data[h].body_temp>>

C4_Witness ==
    \E h \in Handlers :
        /\ pc[h] = "built"
        /\ data[h].age = 1 /\ data[h].duration = 2
        /\ data[h].heart_rate = 1 /\ data[h].body_temp = 2

\* A field that is not a JSON number.
NotANumber(j) == j.kind # "num"

\* A field that is absent, or a string float() does not accept.
Uncoercible(j) == j.kind = "absent" \/ (j.kind = "str" /\ j.text \notin {"1"})

Rejected(h) ==
    /\ pc[h] = "done"
    /\ response[h] = ValidationError
    /\ transformCalls[h] = 0
    /\ predictCalls[h] = 0
    /\ scalerInput[h] = <<>>
    /\ modelInput[h] = <<>>

\* C5 as stated: a request with a field that is missing or not of the JSON
\* number type is answered 422 and never reaches transform or predict.
C5_Original ==
    \A h \in Handlers :
        (pc[h] # "idle" /\ \E f \in Fields : NotANumber(body[h][f])) => Rejected(h)

\* C5 as amended: a request with a field that is missing or cannot be
\* coerced to float is answered 422 and never reaches transform or predict.
C5_RejectUncoercible ==
    \A h \in Handlers :
        (pc[h] # "idle" /\ \E f \in Fields : Uncoercible(body[h][f])) => Rejected(h)

C5_Witness ==
    \E h \in Handlers :
        /\ Rejected(h)
        /\ body[h]["age"].kind = "absent"
        /\ body[h]["duration"].kind = "str" /\ body[h]["duration"].text = "abc"
        /\ body[h]["heart_rate"].kind = "num"

Abs(x) == IF x < 0 THEN -x ELSE x

\* C6: a success response is {"calories_burnt": v} and nothing else, where v
\* is a whole number of hundredths at most half a hundredth away from the
\* single value the model returned for this request; 150.456 gives 150.46.
C6_RoundedResponse ==
    \A h \in Handlers :
        response[h].status = 200 =>
            /\ DOMAIN response[h].body = {"calories_burnt"}
            /\ Len(prediction[h]) = 1
            /\ prediction[h] = ModelPredict(modelInput[h])
            /\ response[h].body.calories_burnt % 10 = 0
            /\ Abs(response[h].body.calories_burnt - prediction[h][1]) <= 5
            /\ prediction[h][1] = 150456 => response[h].body.calories_burnt = 150460

C6_Witness ==
    \E h \in Handlers :
        /\ response[h].status = 200
        /\ prediction[h][1] = 150456
        /\ response[h].body.calories_burnt = 150460

\* C7: once the service is ready, no step changes model, scaler or
\* use_scaler, and the service stays ready.
C7_ConfigFrozen ==
    [][phase = "ready" =>
        /\ phase' = "ready"
        /\ model' = model
        /\ scaler' = scaler
        /\ use_scaler' = use_scaler]_vars

C7_Witness ==
    /\ phase = "ready"
    /\ admitted = MaxRequests
    /\ \E h \in Handlers : response[h] = ServerError /\ predictCalls[h] = 1
    /\ \E h \in Handlers : response[h] = ValidationError

\* The response a request gets when it is the only one being handled.
SoloResponse(b) ==
    IF ~ValidBody(b) THEN ValidationError
    ELSE LET X0 == Features(InputData(b))
         IN  IF ShouldScale /\ ScalerRaises(X0) THEN ServerError
             ELSE LET X1 == IF ShouldScale THEN ScalerTransform(X0) ELSE X0
                  IN  IF ModelRaises(X1) THEN ServerError
                      ELSE Success(Round2(ModelPredict(X1)[1]))

LocalsOf(h) ==
    <<pc[h], body[h], data[h], features[h], prediction[h], response[h],
      scalerInput[h], modelInput[h], transformCalls[h], predictCalls[h]>>

\* C8: under every interleaving, the response of each request is the one it
\* would get alone, and a step of one invocation leaves the locals of every
\* other invocation as they were.
C8_Independent ==
    /\ [](\A h \in Handlers : pc[h] = "done" => response[h] = SoloResponse(body[h]))
    /\ [][\A h \in Handlers :
            LocalsOf(h)' # LocalsOf(h) =>
                \A g \in Handlers \ {h} : LocalsOf(g)' = LocalsOf(g)]_vars

C8_Witness ==
    \E h \in Handlers, g \in Handlers :
        /\ h # g
        /\ pc[h] = "predicted"
        /\ pc[g] = "built"
        /\ data[h] # data[g]

ScalerFailed(h) == transformCalls[h] > 0 /\ ScalerRaises(scalerInput[h])
ModelFailed(h) == predictCalls[h] > 0 /\ ModelRaises(modelInput[h])

\* C9: a failing transform or predict is called once, the request is
\* answered with a server error and no calories_burnt, and after a failing
\* transform the model is not called.
C9_FailureSurfaced ==
    \A h \in Handlers :
        /\ transformCalls[h] <= 1
        /\ predictCalls[h] <= 1
        /\ (ScalerFailed(h) \/ ModelFailed(h)) =>
              /\ pc[h] = "done"
              /\ response[h] = ServerError
              /\ "calories_burnt" \notin DOMAIN response[h].body
        /\ ScalerFailed(h) => predictCalls[h] = 0 /\ modelInput[h] = <<>>

C9_Witness ==
    \E h \in Handlers, g \in Handlers :
        /\ ScalerFailed(h) /\ response[h] = ServerError
        /\ ModelFailed(g) /\ response[g] = ServerError

\* C10: in a ready service use_scaler is True exactly when a scaler object
\* is bound, which is exactly when the scaler file existed; transform is only
\* ever called on a loaded scaler; a corrupt scaler file never leads to a
\* ready service.
C10_ScalerFlagConsistent ==
    /\ phase = "ready" =>
        /\ use_scaler \in {"True", "False"}
        /\ scaler \in {"None", "scaler_obj"}
        /\ use_scaler = "True" <=> scaler = "scaler_obj"
        /\ use_scaler = "True" <=> scalerFile # "missing"
    /\ scalerFile = "corrupt" => phase \notin {"scaler_done", "ready"}
    /\ \A h \in Handlers : transformCalls[h] > 0 => scaler = "scaler_obj"

C10_Witness ==
    /\ phase = "ready"
    /\ use_scaler = "True"
    /\ scaler = "scaler_obj"
    /\ \E h \in Handlers : transformCalls[h] = 1 /\ pc[h] = "scaled"

====
